---- MODULE Spec2Model ----
(***************************************************************************)
(* Model of scripts/localize_images.py: the two-phase image localiser.     *)
(* Phase 1 (collect_plans_for_html, add_planned) builds the ordered plan   *)
(* from <img> tags, inline/background attributes and external CSS rules.   *)
(* Phase 2 (the loop of main) searches, backs up, overwrites and reports.  *)
(*                                                                         *)
(* Strings that the code only compares are TLA+ strings.  Strings that the *)
(* code searches (keyword `in`, regex search, split, strip) are turned     *)
(* into sequences of one-character strings by Chars, so that substring     *)
(* tests are computed and not assumed.  A text made of several words is a  *)
(* sequence of words; Join puts single spaces between them.                *)
(***************************************************************************)
EXTENDS Integers, Sequences, FiniteSets, TLC

(* ---------------------------- bounds ----------------------------------- *)
\* html pages handed to one run (args.dir holds up to MaxPages *.html files)
MaxPages == 2
\* candidate references (loop iterations of collect_plans_for_html) per run
MaxRefs == 2
\* largest --limit value tried
MaxLimit == 2
\* add_planned calls in the merge specification
MaxAdds == 4
\* levels of at-rules in a stylesheet of the stylesheet specification
MaxNest == 2
\* items of one level of such a stylesheet
MaxBlocks == 2

(* ------------------------ program constants ---------------------------- *)
MIN_SIZE_DEFAULT == 8192
MIN_SIZE_SMALL == 2048

TARGET_CATEGORIES == {"hero", "about", "doctor", "testimonial"}
SKIP_NAME_KEYS == <<"logo", "favicon", "icon", "shape", "pattern", "bg">>
SKIP_BG_NAME_KEYS ==
  <<"logo", "favicon", "icon", "shape", "pattern", "overlay", "wave", "dot", "line", "map">>
SKIP_EXTS == {".svg"}
CSS_ALLOW_HINTS ==
  <<"hero", "banner", "home-banner", "about", "doctor", "team", "testimonial", "testimonials">>
CSS_DENY_HINTS ==
  <<"footer", "subscribe", "faq", "prescription", "brand", "shape", "pattern", "case",
    "blog", "serve", "product", "inner-banner", "emergency", "consultancy", "appointment">>

CATEGORY_PRIORITY(c) ==
  CASE c = "hero" -> 4
    [] c = "about" -> 3
    [] c = "doctor" -> 2
    [] c = "testimonial" -> 1
    [] OTHER -> 0

(* ------------------------- character strings --------------------------- *)
Chars(s) ==
  CASE s = "hero" -> <<"h", "e", "r", "o">>
    [] s = "banner" -> <<"b", "a", "n", "n", "e", "r">>
    [] s = "home-banner" -> <<"h", "o", "m", "e", "-", "b", "a", "n", "n", "e", "r">>
    [] s = "about" -> <<"a", "b", "o", "u", "t">>
    [] s = "doctor" -> <<"d", "o", "c", "t", "o", "r">>
    [] s = "team" -> <<"t", "e", "a", "m">>
    [] s = "testimonial" -> <<"t", "e", "s", "t", "i", "m", "o", "n", "i", "a", "l">>
    [] s = "testimonials" -> <<"t", "e", "s", "t", "i", "m", "o", "n", "i", "a", "l", "s">>
    [] s = "footer" -> <<"f", "o", "o", "t", "e", "r">>
    [] s = "subscribe" -> <<"s", "u", "b", "s", "c", "r", "i", "b", "e">>
    [] s = "faq" -> <<"f", "a", "q">>
    [] s = "prescription" -> <<"p", "r", "e", "s", "c", "r", "i", "p", "t", "i", "o", "n">>
    [] s = "brand" -> <<"b", "r", "a", "n", "d">>
    [] s = "shape" -> <<"s", "h", "a", "p", "e">>
    [] s = "pattern" -> <<"p", "a", "t", "t", "e", "r", "n">>
    [] s = "case" -> <<"c", "a", "s", "e">>
    [] s = "blog" -> <<"b", "l", "o", "g">>
    [] s = "serve" -> <<"s", "e", "r", "v", "e">>
    [] s = "product" -> <<"p", "r", "o", "d", "u", "c", "t">>
    [] s = "inner-banner" -> <<"i", "n", "n", "e", "r", "-", "b", "a", "n", "n", "e", "r">>
    [] s = "emergency" -> <<"e", "m", "e", "r", "g", "e", "n", "c", "y">>
    [] s = "consultancy" -> <<"c", "o", "n", "s", "u", "l", "t", "a", "n", "c", "y">>
    [] s = "appointment" -> <<"a", "p", "p", "o", "i", "n", "t", "m", "e", "n", "t">>
    [] s = "logo" -> <<"l", "o", "g", "o">>
    [] s = "favicon" -> <<"f", "a", "v", "i", "c", "o", "n">>
    [] s = "icon" -> <<"i", "c", "o", "n">>
    [] s = "bg" -> <<"b", "g">>
    [] s = "overlay" -> <<"o", "v", "e", "r", "l", "a", "y">>
    [] s = "wave" -> <<"w", "a", "v", "e">>
    [] s = "dot" -> <<"d", "o", "t">>
    [] s = "line" -> <<"l", "i", "n", "e">>
    [] s = "map" -> <<"m", "a", "p">>
    [] s = "slider" -> <<"s", "l", "i", "d", "e", "r">>
    [] s = "review" -> <<"r", "e", "v", "i", "e", "w">>
    [] s = "client" -> <<"c", "l", "i", "e", "n", "t">>
    [] s = "physician" -> <<"p", "h", "y", "s", "i", "c", "i", "a", "n">>
    [] s = "specialist" -> <<"s", "p", "e", "c", "i", "a", "l", "i", "s", "t">>
    [] s = "surgeon" -> <<"s", "u", "r", "g", "e", "o", "n">>
    [] s = "pediatric" -> <<"p", "e", "d", "i", "a", "t", "r", "i", "c">>
    [] s = "cardio" -> <<"c", "a", "r", "d", "i", "o">>
    [] s = "pharmacist" -> <<"p", "h", "a", "r", "m", "a", "c", "i", "s", "t">>
    [] s = "staff" -> <<"s", "t", "a", "f", "f">>
    [] s = "patient" -> <<"p", "a", "t", "i", "e", "n", "t">>
    [] s = "pharmac" -> <<"p", "h", "a", "r", "m", "a", "c">>
    [] s = ".svg" -> <<".", "s", "v", "g">>
    [] s = ".jpg" -> <<".", "j", "p", "g">>
    [] s = ".png" -> <<".", "p", "n", "g">>
    [] s = "photo.jpg" -> <<"p", "h", "o", "t", "o", ".", "j", "p", "g">>
    [] s = "hero-bg.jpg" -> <<"h", "e", "r", "o", "-", "b", "g", ".", "j", "p", "g">>
    [] s = "outline.jpg" -> <<"o", "u", "t", "l", "i", "n", "e", ".", "j", "p", "g">>
    [] s = "logo.png" -> <<"l", "o", "g", "o", ".", "p", "n", "g">>
    [] s = "chart.svg" -> <<"c", "h", "a", "r", "t", ".", "s", "v", "g">>
    [] s = "tiny.jpg" -> <<"t", "i", "n", "y", ".", "j", "p", "g">>
    [] s = "pic.jpg" -> <<"p", "i", "c", ".", "j", "p", "g">>
    [] s = "missing.jpg" -> <<"m", "i", "s", "s", "i", "n", "g", ".", "j", "p", "g">>
    [] s = "hero-area" -> <<"h", "e", "r", "o", "-", "a", "r", "e", "a">>
    [] s = "testimonial-area" -> <<"t", "e", "s", "t", "i", "m", "o", "n", "i", "a", "l", "-", "a", "r", "e", "a">>
    [] s = "subscribe-area" -> <<"s", "u", "b", "s", "c", "r", "i", "b", "e", "-", "a", "r", "e", "a">>
    [] s = "contact-area" -> <<"c", "o", "n", "t", "a", "c", "t", "-", "a", "r", "e", "a">>
    [] s = "Subscribe" -> <<"S", "u", "b", "s", "c", "r", "i", "b", "e">>
    [] s = "to" -> <<"t", "o">>
    [] s = "our" -> <<"o", "u", "r">>
    [] s = "newsletter" -> <<"n", "e", "w", "s", "l", "e", "t", "t", "e", "r">>
    [] s = "Happy" -> <<"H", "a", "p", "p", "y">>
    [] s = "patients" -> <<"p", "a", "t", "i", "e", "n", "t", "s">>
    [] s = "About" -> <<"A", "b", "o", "u", "t">>
    [] s = "Contact" -> <<"C", "o", "n", "t", "a", "c", "t">>
    [] s = "us" -> <<"u", "s">>
    [] s = "img" -> <<"i", "m", "g">>
    [] s = "inline" -> <<"i", "n", "l", "i", "n", "e">>
    [] s = "css" -> <<"c", "s", "s">>
    [] s = "css:style.css" -> <<"c", "s", "s", ":", "s", "t", "y", "l", "e", ".", "c", "s", "s">>
    [] s = ".hero-area" -> <<".", "h", "e", "r", "o", "-", "a", "r", "e", "a">>
    [] s = ".hero-area::before, .testimonial-area" -> <<".", "h", "e", "r", "o", "-", "a", "r", "e", "a", ":", ":", "b", "e", "f", "o", "r", "e", ",", " ", ".", "t", "e", "s", "t", "i", "m", "o", "n", "i", "a", "l", "-", "a", "r", "e", "a">>
    [] s = ".subscribe-area .hero-inner" -> <<".", "s", "u", "b", "s", "c", "r", "i", "b", "e", "-", "a", "r", "e", "a", " ", ".", "h", "e", "r", "o", "-", "i", "n", "n", "e", "r">>
    [] s = ".shape-1, .hero-area:hover" -> <<".", "s", "h", "a", "p", "e", "-", "1", ",", " ", ".", "h", "e", "r", "o", "-", "a", "r", "e", "a", ":", "h", "o", "v", "e", "r">>
    [] s = "@font-face" -> <<"@", "f", "o", "n", "t", "-", "f", "a", "c", "e">>
    [] s = ".contact-area" -> <<".", "c", "o", "n", "t", "a", "c", "t", "-", "a", "r", "e", "a">>

LowerChar(c) ==
  CASE c = "A" -> "a" [] c = "B" -> "b" [] c = "C" -> "c" [] c = "D" -> "d"
    [] c = "E" -> "e" [] c = "F" -> "f" [] c = "G" -> "g" [] c = "H" -> "h"
    [] c = "I" -> "i" [] c = "J" -> "j" [] c = "K" -> "k" [] c = "L" -> "l"
    [] c = "M" -> "m" [] c = "N" -> "n" [] c = "O" -> "o" [] c = "P" -> "p"
    [] c = "Q" -> "q" [] c = "R" -> "r" [] c = "S" -> "s" [] c = "T" -> "t"
    [] c = "U" -> "u" [] c = "V" -> "v" [] c = "W" -> "w" [] c = "X" -> "x"
    [] c = "Y" -> "y" [] c = "Z" -> "z" [] OTHER -> c

\* str.lower()
Lower(cs) == [i \in 1..Len(cs) |-> LowerChar(cs[i])]

\* Python's `sub in cs`
Contains(cs, sub) ==
  \E i \in 0..(Len(cs) - Len(sub)) : SubSeq(cs, i + 1, i + Len(sub)) = sub

\* any(k in cs for k in keys)
ContainsAny(cs, keys) == \E i \in 1..Len(keys) : Contains(cs, Chars(keys[i]))

\* " ".join(words), as characters
RECURSIVE Join(_)
Join(words) ==
  IF words = <<>> THEN <<>>
  ELSE IF Len(words) = 1 THEN Chars(words[1])
  ELSE Chars(words[1]) \o <<" ">> \o Join(Tail(words))

\* str.strip() for the blank characters that occur
RECURSIVE Strip(_)
Strip(cs) ==
  IF cs = <<>> THEN <<>>
  ELSE IF Head(cs) = " " THEN Strip(Tail(cs))
  ELSE IF cs[Len(cs)] = " " THEN Strip(SubSeq(cs, 1, Len(cs) - 1))
  ELSE cs

\* str.split(ch)
RECURSIVE Split(_, _)
Split(cs, ch) ==
  IF \A i \in 1..Len(cs) : cs[i] # ch THEN <<cs>>
  ELSE LET k == CHOOSE i \in 1..Len(cs) : cs[i] = ch /\ \A j \in 1..(i - 1) : cs[j] # ch
       IN <<SubSeq(cs, 1, k - 1)>> \o Split(SubSeq(cs, k + 1, Len(cs)), ch)

\* re.search of a keyword alternation, re.IGNORECASE
SearchIgnoreCase(keys, cs) == ContainsAny(Lower(cs), keys)

\* str.startswith
StartsWith(cs, pre) == Len(cs) >= Len(pre) /\ SubSeq(cs, 1, Len(pre)) = pre

\* the characters of the class [\w-]
WordChars ==
  {"a", "b", "c", "d", "e", "f", "g", "h", "i", "j", "k", "l", "m", "n", "o", "p", "q",
   "r", "s", "t", "u", "v", "w", "x", "y", "z", "A", "B", "C", "D", "E", "F", "G", "H",
   "I", "J", "K", "L", "M", "N", "O", "P", "Q", "R", "S", "T", "U", "V", "W", "X", "Y",
   "Z", "0", "1", "2", "3", "4", "5", "6", "7", "8", "9", "_", "-"}

\* length of the longest run of [\w-] characters of cs that starts at i
RECURSIVE WordRun(_, _)
WordRun(cs, i) ==
  IF i <= Len(cs) /\ cs[i] \in WordChars THEN 1 + WordRun(cs, i + 1) ELSE 0

\* re.sub(r"::?[\w-]+", "", cs): leftmost, greedy, non-overlapping
RECURSIVE StripPseudo(_)
StripPseudo(cs) ==
  IF cs = <<>> THEN <<>>
  ELSE IF Head(cs) = ":" /\ Len(cs) >= 2 /\ cs[2] = ":" /\ WordRun(cs, 3) > 0
    THEN StripPseudo(SubSeq(cs, 3 + WordRun(cs, 3), Len(cs)))
  ELSE IF Head(cs) = ":" /\ WordRun(cs, 2) > 0
    THEN StripPseudo(SubSeq(cs, 2 + WordRun(cs, 2), Len(cs)))
  ELSE <<Head(cs)>> \o StripPseudo(Tail(cs))

\* sanitize_selector.  Its second substitution, of ":" followed by hover,
\* active, ..., nth-*, needs a ":" that is followed by a letter; the first
\* substitution leaves none (it removes every such ":" together with the
\* whole run of [\w-] after it), so the second one never changes the text.
sanitize_selector(selector) == Strip(StripPseudo(Strip(selector)))

(* ------------------------ blocks of a stylesheet ----------------------- *)
\* cs[a:b] for 0 <= a and 0 <= b <= len(cs)
Slice(cs, a, b) == SubSeq(cs, a + 1, b)

\* cs.startswith(pre, i), i a 0-based index
StartsWithAt(cs, pre, i) ==
  i + Len(pre) <= Len(cs) /\ Slice(cs, i, i + Len(pre)) = pre

\* cs.find(sub, i): the least 0-based index >= i where sub starts, or -1
Find(cs, sub, i) ==
  LET found_at == {j \in i..(Len(cs) - Len(sub)) : StartsWithAt(cs, sub, j)}
  IN IF found_at = {} THEN -1
     ELSE CHOOSE j \in found_at : \A h \in found_at : j <= h

\* re.sub(r"/\*.*?\*/", "", cs, flags=re.DOTALL): every "/*" up to the
\* nearest "*/" after it goes.  When the leftmost "/*" has no "*/" after it,
\* no later one has, and the text stays as it is
RECURSIVE strip_comments(_)
strip_comments(cs) ==
  LET open == Find(cs, <<"/", "*">>, 0)
      close == Find(cs, <<"*", "/">>, open + 2)
  IN IF open = -1 THEN cs
     ELSE IF close = -1 THEN cs
     ELSE Slice(cs, 0, open) \o strip_comments(Slice(cs, close + 2, Len(cs)))

AT_MEDIA == <<"@", "m", "e", "d", "i", "a">>
AT_SUPPORTS == <<"@", "s", "u", "p", "p", "o", "r", "t", "s">>

\* the loop `while k < n and depth > 0` of extract_blocks: the value of k
\* when it ends.  Only a brace changes depth, so the loop is followed from
\* one brace to the next
RECURSIVE scan_braces(_, _, _)
scan_braces(s, k, depth) ==
  LET braces == {h \in k..(Len(s) - 1) : s[h + 1] \in {"{", "}"}}
      b == CHOOSE h \in braces : \A g \in braces : h <= g
  IN IF depth = 0 \/ k >= Len(s) THEN k
     ELSE IF braces = {} THEN Len(s)
     ELSE scan_braces(s, b + 1, IF s[b + 1] = "{" THEN depth + 1 ELSE depth - 1)

\* the blocks the loop `while i < n` of extract_blocks appends from index i on
RECURSIVE extract_blocks_from(_, _)
extract_blocks_from(s, i) ==
  IF i >= Len(s) THEN <<>>
  ELSE LET j == Find(s, <<"{">>, i)
           k == scan_braces(s, j + 1, 1)
           selector == Strip(Slice(s, i, j))
           body == Slice(s, j + 1, k - 1)
       IN IF j = -1 THEN <<>>
          ELSE IF StartsWithAt(s, AT_MEDIA, i) \/ StartsWithAt(s, AT_SUPPORTS, i)
            THEN extract_blocks_from(body, 0) \o extract_blocks_from(s, k)
          ELSE IF selector # <<>>
            THEN <<[selector |-> selector, body |-> body]>> \o extract_blocks_from(s, k)
          ELSE extract_blocks_from(s, k)

extract_blocks(s) == extract_blocks_from(s, 0)

iter_css_blocks(text) == extract_blocks(strip_comments(text))

\* str.strip("'\"")
RECURSIVE StripQuotes(_)
StripQuotes(cs) ==
  IF cs = <<>> THEN <<>>
  ELSE IF Head(cs) \in {"'", "\""} THEN StripQuotes(Tail(cs))
  ELSE IF cs[Len(cs)] \in {"'", "\""} THEN StripQuotes(SubSeq(cs, 1, Len(cs) - 1))
  ELSE cs

\* re.findall(r"url\(([^)]+)\)", value, re.IGNORECASE), each match stripped
\* of blanks and quotes, the empty ones dropped.  A match is a "url(" with
\* the nearest ")" after it and at least one character between them
RECURSIVE extract_urls(_)
extract_urls(value) ==
  LET start == Find(Lower(value), <<"u", "r", "l", "(">>, 0)
      close == Find(value, <<")">>, start + 4)
      url == StripQuotes(Strip(Slice(value, start + 4, close)))
  IN IF start = -1 THEN <<>>
     ELSE IF close > start + 4
       THEN (IF url # <<>> THEN <<url>> ELSE <<>>)
            \o extract_urls(Slice(value, close + 1, Len(value)))
     ELSE extract_urls(Slice(value, start + 1, Len(value)))

\* a block passes the tests of lines 341-347 and goes on to the loop over
\* its selectors
reaches_lookup(block) ==
  /\ ~StartsWith(Strip(block.selector), <<"@">>)
  /\ Contains(block.body, <<"u", "r", "l", "(">>)
  /\ extract_urls(block.body) # <<>>

(* ----------------------------- the world ------------------------------- *)
\* image files below the site, named by their path relative to assets/img
Files ==
  {"a/photo.jpg", "b/photo.jpg", "hero-bg.jpg", "outline.jpg", "logo.png",
   "chart.svg", "tiny.jpg", "../pic.jpg", "missing.jpg"}

\* Path.name
Name(p) ==
  CASE p = "a/photo.jpg" -> "photo.jpg"
    [] p = "b/photo.jpg" -> "photo.jpg"
    [] p = "../pic.jpg" -> "pic.jpg"
    [] OTHER -> p

\* Path.exists()
Exists(p) == p # "missing.jpg"

\* Path.stat().st_size
Size(p) ==
  CASE p = "hero-bg.jpg" -> 50000
    [] p = "outline.jpg" -> 4096
    [] p = "tiny.jpg" -> 1000
    [] OTHER -> 20000

\* Path.suffix: from the last dot of the name, when that dot is not its first character
Suffix(cs) ==
  IF \E i \in 2..Len(cs) : cs[i] = "."
  THEN LET k == CHOOSE i \in 2..Len(cs) : cs[i] = "." /\ \A j \in (i + 1)..Len(cs) : cs[j] # "."
       IN SubSeq(cs, k, Len(cs))
  ELSE <<>>

is_under_assets(p) == p # "../pic.jpg"

\* a raw src / url(...) / href value: scheme prefix, relative path, query part
Urls ==
  {[scheme |-> "", path |-> f, query |-> ""] : f \in Files}
    \cup {[scheme |-> "https://", path |-> "a/photo.jpg", query |-> ""],
          [scheme |-> "", path |-> "b/photo.jpg", query |-> "?v=2"],
          [scheme |-> "#", path |-> "", query |-> ""]}

is_local_src(src) ==
  IF src.scheme = "" /\ src.path = "" THEN FALSE
  ELSE src.scheme \notin {"http://", "https://", "//", "data:", "#"}

clean_src(src) == [src EXCEPT !.query = ""]

\* (html_path.parent / src_clean).resolve() and resolve_css_url
resolve(src) == src.path

\* DOM elements, given by what find_section_tag and extract_nearby_text
\* return for them: id and classes of the section tag, the nearby text, the
\* alt attribute and the element's own text
ElHero ==
  [id |-> "", classes |-> <<"hero-area">>, alt |-> <<>>,
   nearby |-> <<"Subscribe", "to", "our", "newsletter">>, own |-> <<>>]

ElTestimonial ==
  [id |-> "", classes |-> <<"testimonial-area">>, alt |-> <<>>,
   nearby |-> <<"Happy", "patients">>, own |-> <<>>]

ElSubscribe ==
  [id |-> "subscribe-area", classes |-> <<>>, alt |-> <<"About">>,
   nearby |-> <<"us">>, own |-> <<>>]

ElContact ==
  [id |-> "", classes |-> <<"contact-area">>, alt |-> <<>>,
   nearby |-> <<>>, own |-> <<"Contact", "us">>]

Elements == {ElHero, ElTestimonial, ElSubscribe, ElContact}

\* soup.select(sel) found nothing
NoElement == [id |-> "none", classes |-> <<>>, alt |-> <<>>, nearby |-> <<>>, own |-> <<>>]

\* the blocks iter_css_blocks yields: selector text and the urls of the body
Rules ==
  {[selector |-> ".hero-area",
    urls |-> <<[scheme |-> "", path |-> "hero-bg.jpg", query |-> ""]>>],
   [selector |-> ".hero-area::before, .testimonial-area",
    urls |-> <<[scheme |-> "", path |-> "a/photo.jpg", query |-> ""]>>],
   [selector |-> ".subscribe-area .hero-inner",
    urls |-> <<[scheme |-> "", path |-> "b/photo.jpg", query |-> ""]>>],
   [selector |-> ".shape-1, .hero-area:hover",
    urls |-> <<[scheme |-> "", path |-> "hero-bg.jpg", query |-> ""],
               [scheme |-> "https://", path |-> "a/photo.jpg", query |-> ""]>>],
   [selector |-> "@font-face",
    urls |-> <<[scheme |-> "", path |-> "a/photo.jpg", query |-> ""]>>],
   [selector |-> ".contact-area", urls |-> <<>>]}

Local(f) == [scheme |-> "", path |-> f, query |-> ""]

\* values of the data-background, data-bg, data-setbg attributes
AttrUrls == {Local("b/photo.jpg"), Local("hero-bg.jpg")}

\* a site: the <img> tags (element, src), the styled elements (element, urls
\* of the style attribute, values of the background attributes), the rules of
\* its stylesheet, and the elements its selectors can match
FullSite ==
  [imgs |-> Elements \X Urls,
   styled |-> Elements \X ({<<>>} \cup {<<u>> : u \in Urls})
                       \X ({<<>>} \cup {<<u>> : u \in AttrUrls}),
   rules |-> Rules,
   matched |-> Elements \cup {NoElement}]

\* a site of three images, two of them with the same file name
SmallSite ==
  [imgs |-> {<<ElHero, Local("a/photo.jpg")>>, <<ElTestimonial, Local("b/photo.jpg")>>,
             <<ElHero, Local("logo.png")>>},
   styled |-> {<<ElTestimonial, <<Local("hero-bg.jpg")>>, <<>>>>,
               <<ElHero, <<Local("a/photo.jpg")>>, <<Local("b/photo.jpg")>>>>},
   rules |-> {[selector |-> ".hero-area", urls |-> <<Local("hero-bg.jpg")>>]},
   matched |-> {ElHero, NoElement}]

Site(name) == IF name = "small" THEN SmallSite ELSE FullSite

(* ------------------------- context and category ------------------------ *)
\* element_context: (section_label, text), both as word sequences
section_label_of(el) == (IF el.id = "" THEN <<>> ELSE <<el.id>>) \o el.classes

text_of(el) ==
  LET text == el.alt \o el.nearby
  IN IF text = <<>> THEN el.own ELSE text

categorize(section_label, text) ==
  LET t == Lower(Join(section_label) \o <<" ">> \o Join(text))
  IN IF ContainsAny(t, <<"hero", "banner", "slider">>) THEN "hero"
     ELSE IF ContainsAny(t, <<"testimonial", "review", "client">>) THEN "testimonial"
     ELSE IF ContainsAny(t, <<"doctor", "physician", "specialist", "surgeon",
                              "pediatric", "cardio", "pharmacist">>) THEN "doctor"
     ELSE IF ContainsAny(t, <<"about", "team", "staff">>) THEN "about"
     ELSE IF ContainsAny(t, <<"patient">>) THEN "testimonial"
     ELSE "generic"

min_size(category) == IF category = "testimonial" THEN MIN_SIZE_SMALL ELSE MIN_SIZE_DEFAULT

(* ------------------------------ queries -------------------------------- *)
\* a query is its sequence of words; in every query build_query returns,
\* the only word that contains "Kenyan" is the word "Kenyan" itself
build_query(category, text, index, source) ==
  LET t == Lower(Join(text))
  IN IF category = "hero"
       THEN <<"Modern", "Kenyan", "hospital", "interior", "with", "African", "doctors,",
              "photorealistic">>
     ELSE IF StartsWith(Chars(source), Chars("css")) /\ category = "testimonial"
       THEN <<"Kenyan", "pharmacy", "customers", "smiling", "in", "pharmacy", "interior,",
              "wide", "shot">>
     ELSE IF category = "about"
       THEN <<"Kenyan", "medical", "team", "in", "pharmacy,", "diverse", "staff,",
              "professional">>
     ELSE IF category = "doctor"
       THEN IF Contains(t, Chars("pediatric"))
              THEN <<"Black", "Kenyan", "female", "pediatrician", "smiling", "portrait",
                     "in", "clinic">>
            ELSE IF Contains(t, Chars("cardio"))
              THEN <<"Black", "Kenyan", "cardiologist", "in", "hospital", "setting">>
            ELSE IF Contains(t, Chars("pharmac"))
              THEN <<"Black", "Kenyan", "pharmacist", "in", "pharmacy,", "professional",
                     "portrait">>
            ELSE IF index % 2 = 0
              THEN <<"Black", "Kenyan", "female", "doctor", "headshot,", "clinic",
                     "background">>
            ELSE <<"Black", "Kenyan", "male", "doctor", "headshot,", "clinic", "background">>
     ELSE IF category = "testimonial"
       THEN IF index % 3 = 0
              THEN <<"Kenyan", "woman", "smiling", "portrait,", "patient", "testimonial">>
            ELSE IF index % 3 = 1
              THEN <<"Kenyan", "man", "smiling", "portrait,", "patient", "testimonial">>
            ELSE <<"Kenyan", "older", "adult", "smiling", "portrait,", "patient",
                   "testimonial">>
     ELSE IF Contains(t, Chars("pharmac"))
       THEN <<"Black", "Kenyan", "pharmacist", "in", "pharmacy,", "professional", "portrait">>
     ELSE <<"Kenyan", "healthcare", "professional", "portrait,", "pharmacy", "setting">>

\* str.replace / re.sub of the word old by new
ReplaceWord(query, old, new) ==
  [i \in 1..Len(query) |-> IF query[i] = old THEN new ELSE query[i]]

\* the sequence query_variants yields
query_variants(query) ==
  <<query>>
    \o (IF \E i \in 1..Len(query) : query[i] = "Kenyan"
        THEN <<ReplaceWord(query, "Kenyan", "African"), ReplaceWord(query, "Kenyan", "Black")>>
        ELSE <<>>)
    \o <<ReplaceWord(query, "Kenyan", "African")>>

(* ------------------------------ the plan ------------------------------- *)
\* the plan is the dict `planned` in insertion order: a sequence of entries
\* [path, category, text, section, source, pages]
IndexOf(plan, path) ==
  IF \E i \in 1..Len(plan) : plan[i].path = path
  THEN CHOOSE i \in 1..Len(plan) : plan[i].path = path
  ELSE 0

\* sorted(set(pages)); a page is its rank in the sorted list html_paths
RECURSIVE SortedSeq(_)
SortedSeq(S) ==
  IF S = {} THEN <<>>
  ELSE LET m == CHOOSE x \in S : \A y \in S : x <= y
       IN <<m>> \o SortedSeq(S \ {m})

Range(seq) == {seq[i] : i \in 1..Len(seq)}

add_planned_keep_first(plan, path, meta) ==
  LET i == IndexOf(plan, path)
  IN IF i = 0 THEN Append(plan, [path |-> path] @@ meta)
     ELSE [plan EXCEPT ![i].pages = SortedSeq(Range(plan[i].pages \o meta.pages))]

add_planned(plan, path, meta) ==
  LET i == IndexOf(plan, path)
  IN IF i = 0 THEN Append(plan, [path |-> path] @@ meta)
     ELSE LET combined_pages == SortedSeq(Range(plan[i].pages \o meta.pages))
          IN IF CATEGORY_PRIORITY(meta.category) > CATEGORY_PRIORITY(plan[i].category)
               THEN [plan EXCEPT ![i] = [path |-> path] @@ [meta EXCEPT !.pages = combined_pages]]
             ELSE [plan EXCEPT ![i].pages = combined_pages]

(* ------------------------------- state --------------------------------- *)
VARIABLES
  site,         \* which site the run is pointed at: "small" or "full"
  args,         \* parsed command line: dry_run, limit, provider
  pc,           \* position in main: "plan", "search", "backup", "download", "append",
                \* "report", "done", "aborted"; "merge" in the merge specification
  page,         \* rank of the page collect_plans_for_html works on
  stage,        \* position in collect_plans_for_html: "open", "img", "inline", "css"
  nrefs,        \* loop iterations of collect_plans_for_html so far
  planned,      \* the plan, in insertion order
  cur,          \* the add_planned calls of the current loop iteration of the collector
  rejected,     \* the references that iteration dropped for their name or for a deny hint
  backup_dir,   \* the run's backup directory exists
  backups,      \* files in the backup directory: [name, of] = named name, copy of path of
  copies,       \* number of shutil.copy2 calls per image path
  content,      \* bytes of each image file: "orig", the url it was downloaded from, "partial"
  idx,          \* rank in the plan of the reference being processed
  vi,           \* rank of the query variant to try next
  query,        \* the local variable query of main
  chosen_url,   \* the local variable chosen_url of main
  count,        \* replacements so far
  report,       \* the list report
  report_file,  \* "absent", or the list written to the report file
  tried,        \* queries sent to the search API for the current reference
  skipped,      \* paths printed as [skip]
  net,          \* whether a search request, a download request was issued so far
  last_status,  \* status code of the last search response, 0 before the first
  exit,         \* "running", the return code of main, or the exception that left it
  hist,         \* merge specification: the records handed to add_planned, per path
  sheet,        \* stylesheet specification: the rules and at-rules css_text was written from
  css_text,     \* the text read from a stylesheet, as characters
  blocks        \* the list iter_css_blocks returned for css_text

vars ==
  <<site, args, pc, page, stage, nrefs, planned, cur, rejected, backup_dir, backups, copies,
    content, idx,
    vi, query, chosen_url, count, report, report_file, tried, skipped, net, last_status,
    exit, hist, sheet, css_text, blocks>>

cssVars == <<sheet, css_text, blocks>>
planVars == <<page, stage, nrefs, planned, cur, rejected>>
execVars == <<idx, vi, query, chosen_url, count, report, tried, skipped, last_status>>
fileVars == <<backup_dir, backups, copies, content, report_file>>

NoCalls == {}
None == "None"

\* main has parsed its arguments and found html_paths and the API key,
\* lines 509-538
Fresh ==
  /\ page = 1
  /\ stage = "open"
  /\ nrefs = 0
  /\ planned = <<>>
  /\ cur = NoCalls
  /\ rejected = NoCalls
  /\ backup_dir = FALSE
  /\ backups = {}
  /\ copies = [p \in Files |-> 0]
  /\ content = [p \in Files |-> "orig"]
  /\ idx = 0
  /\ vi = 0
  /\ query = <<>>
  /\ chosen_url = None
  /\ count = 0
  /\ report = <<>>
  /\ report_file = "absent"
  /\ tried = <<>>
  /\ skipped = {}
  /\ net = [search |-> FALSE, download |-> FALSE]
  /\ last_status = 0
  /\ exit = "running"
  /\ hist = {}
  /\ sheet = <<>>
  /\ css_text = <<>>
  /\ blocks = <<>>

Init ==
  /\ site = "small"
  /\ args \in [dry_run : BOOLEAN, limit : 0..MaxLimit, provider : {"pexels", "unsplash"}]
  /\ pc = "plan"
  /\ Fresh

(* ------------------- phase 1: collect_plans_for_html ------------------- *)
\* categorize(*element_context(el)), computed once per element
category_of == [el \in Elements |-> categorize(section_label_of(el), text_of(el))]

\* the metadata record of lines 287-293, 327-333, 390-396
Meta(el, source) ==
  [category |-> category_of[el],
   text |-> text_of(el),
   section |-> section_label_of(el),
   source |-> source,
   pages |-> <<page>>]

\* line 271: SKIP_NAME_RE.search(img_path.name)
skip_img_name(name) == SearchIgnoreCase(SKIP_NAME_KEYS, name)

\* lines 313, 352, 379: SKIP_BG_NAME_RE.search(...)
skip_bg_name_lax(name) == SearchIgnoreCase(<<"overlay", "wave", "dot", "line", "map">>, name)

skip_bg_name(name) == SearchIgnoreCase(SKIP_BG_NAME_KEYS, name)

\* the filters of one <img> reference, lines 265-282
ImgEligible(el, src) ==
  LET p == resolve(clean_src(src))
      category == category_of[el]
  IN /\ is_local_src(src)
     /\ Exists(p)
     /\ Lower(Suffix(Chars(Name(p)))) \notin {Chars(e) : e \in SKIP_EXTS}
     /\ ~skip_img_name(Chars(Name(p)))
     /\ is_under_assets(p)
     /\ category \in TARGET_CATEGORIES
     /\ Size(p) >= min_size(category)

\* the filters of one background url, lines 307-323 and 373-385
BgUrlSkipped(p) ==
  \/ Lower(Suffix(Chars(Name(p)))) \in {Chars(e) : e \in SKIP_EXTS}
  \/ skip_bg_name(Chars(Name(p)))

BgEligible(el, url) ==
  LET p == resolve(clean_src(url))
      category == category_of[el]
  IN /\ is_local_src(url)
     /\ Exists(p)
     /\ ~BgUrlSkipped(p)
     /\ is_under_assets(p)
     /\ category \in TARGET_CATEGORIES
     /\ Size(p) >= min_size(category)

\* the two filters, computed once per element and url
img_ok == [el \in Elements, src \in Urls |-> ImgEligible(el, src)]

bg_ok == [el \in Elements, url \in Urls |-> BgEligible(el, url)]

\* an existing local file that the name filter drops
img_name_rejected ==
  [src \in Urls |->
     is_local_src(src) /\ Exists(resolve(clean_src(src)))
       /\ skip_img_name(Chars(Name(resolve(clean_src(src)))))]

bg_name_rejected ==
  [url \in Urls |->
     is_local_src(url) /\ Exists(resolve(clean_src(url)))
       /\ skip_bg_name(Chars(Name(resolve(clean_src(url)))))]

Rejection(why, path, source, raw_sel, section) ==
  [why |-> why, path |-> path, source |-> source, selector |-> raw_sel, section |-> section]

BgNameRejections(urls, source) ==
  {Rejection("name", resolve(clean_src(urls[i])), source, <<>>, <<>>) :
     i \in {j \in 1..Len(urls) : bg_name_rejected[urls[j]]}}

\* add_planned for each eligible url of the sequence urls, in order
RECURSIVE AddUrls(_, _, _, _)
AddUrls(plan, el, urls, source) ==
  IF urls = <<>> THEN plan
  ELSE AddUrls(IF bg_ok[el, Head(urls)]
                 THEN add_planned(plan, resolve(clean_src(Head(urls))), Meta(el, source))
               ELSE plan,
               el, Tail(urls), source)

CallsOf(el, urls, source, raw_sel) ==
  {[path |-> resolve(clean_src(urls[i])), source |-> source, selector |-> raw_sel,
    section |-> section_label_of(el)] :
      i \in {j \in 1..Len(urls) : bg_ok[el, urls[j]]}}

\* lines 254-261: read and parse the page, look for assets/img
OpenPage ==
  /\ pc = "plan" /\ page <= MaxPages /\ stage = "open"
  /\ \E assets_exist \in BOOLEAN :
       IF assets_exist
         THEN stage' = "img" /\ page' = page
       ELSE stage' = "open" /\ page' = page + 1
  /\ UNCHANGED <<cssVars, site, args, pc, nrefs, planned, cur, rejected, execVars, fileVars, net, exit, hist>>

\* one iteration of the loop over <img> tags, lines 263-294
ImgRef ==
  /\ pc = "plan" /\ stage = "img" /\ nrefs < MaxRefs
  /\ \E tag \in Site(site).imgs :
       LET el == tag[1]
           src == tag[2]
       IN
       IF img_ok[el, src]
         THEN /\ planned' = add_planned(planned, resolve(clean_src(src)), Meta(el, "img"))
              /\ cur' = {[path |-> resolve(clean_src(src)), source |-> "img", selector |-> <<>>,
                          section |-> section_label_of(el)]}
              /\ rejected' = NoCalls
       ELSE /\ planned' = planned
            /\ cur' = NoCalls
            /\ rejected' = IF img_name_rejected[src]
                             THEN {Rejection("name", resolve(clean_src(src)), "img", <<>>, <<>>)}
                           ELSE NoCalls
  /\ nrefs' = nrefs + 1
  /\ UNCHANGED <<cssVars, site, args, pc, page, stage, execVars, fileVars, net, exit, hist>>

\* the loop over <img> tags ends
ImgsDone ==
  /\ pc = "plan" /\ stage = "img"
  /\ stage' = "inline"
  /\ cur' = NoCalls
  /\ rejected' = NoCalls
  /\ UNCHANGED <<cssVars, site, args, pc, page, nrefs, planned, execVars, fileVars, net, exit, hist>>

\* one iteration of the loop over all elements, lines 297-334: the urls of
\* the style attribute, then the background attributes
InlineRef ==
  /\ pc = "plan" /\ stage = "inline" /\ nrefs < MaxRefs
  /\ \E tag \in Site(site).styled :
       LET el == tag[1]
           style_urls == tag[2]
           attr_urls == tag[3]
       IN
       /\ planned' = AddUrls(planned, el, style_urls \o attr_urls, "inline")
       /\ cur' = CallsOf(el, style_urls \o attr_urls, "inline", <<>>)
       /\ rejected' = BgNameRejections(style_urls \o attr_urls, "inline")
  /\ nrefs' = nrefs + 1
  /\ UNCHANGED <<cssVars, site, args, pc, page, stage, execVars, fileVars, net, exit, hist>>

\* the loop over all elements ends
InlineDone ==
  /\ pc = "plan" /\ stage = "inline"
  /\ stage' = "css"
  /\ cur' = NoCalls
  /\ rejected' = NoCalls
  /\ UNCHANGED <<cssVars, site, args, pc, page, nrefs, planned, execVars, fileVars, net, exit, hist>>

\* line 363: a deny-listed hint occurs in "<raw selector> <section label>"
css_denied_never(sel_text) == FALSE

css_denied(sel_text) == ContainsAny(sel_text, CSS_DENY_HINTS)

\* line 362
sel_text_of(raw_sel, el) == Lower(raw_sel \o <<" ">> \o Join(section_label_of(el)))

\* the tests of one selector of a rule, lines 351-370; el is elements[0],
\* NoElement when soup.select found nothing
SelectorReaches(raw_sel, el) ==
  LET sel == sanitize_selector(raw_sel)
  IN /\ sel # <<>>
     /\ ~skip_bg_name(sel)
     /\ el # NoElement

SelectorPasses(raw_sel, el) ==
  /\ SelectorReaches(raw_sel, el)
  /\ ~css_denied(sel_text_of(raw_sel, el))
  /\ ContainsAny(sel_text_of(raw_sel, el), CSS_ALLOW_HINTS)
  /\ category_of[el] \in TARGET_CATEGORIES

\* line 349: [s.strip() for s in selector.split(",") if s.strip()]
selectors_of(selector) ==
  SelectSeq([i \in 1..Len(Split(selector, ",")) |-> Strip(Split(selector, ",")[i])],
            LAMBDA s : s # <<>>)

\* the selectors of each rule, and the tests of each, computed once
rule_selectors == [rule \in Rules |-> selectors_of(Chars(rule.selector))]

selector_ok ==
  [rule \in Rules |->
     [k \in 1..Len(rule_selectors[rule]), el \in Elements \cup {NoElement} |->
        SelectorPasses(rule_selectors[rule][k], el)]]

\* the selector got as far as line 363 and was dropped there
selector_denied ==
  [rule \in Rules |->
     [k \in 1..Len(rule_selectors[rule]), el \in Elements \cup {NoElement} |->
        SelectorReaches(rule_selectors[rule][k], el)
          /\ css_denied(sel_text_of(rule_selectors[rule][k], el))]]

\* the loop over the selectors of one rule, from selector k on, lines 350-397
RECURSIVE AddSelectors(_, _, _, _)
AddSelectors(plan, rule, k, dom) ==
  IF k > Len(rule_selectors[rule]) THEN plan
  ELSE AddSelectors(IF selector_ok[rule][k, dom[k]]
                      THEN AddUrls(plan, dom[k], rule.urls, "css:style.css")
                    ELSE plan,
                    rule, k + 1, dom)

\* line 341
is_at_rule(selector) == StartsWith(Strip(selector), <<"@">>)

at_rule == [rule \in Rules |-> is_at_rule(Chars(rule.selector))]

\* one iteration of the loop over the blocks of a stylesheet, lines 340-397;
\* dom[k] is the first element the k-th selector of the rule matches
CssRule ==
  /\ pc = "plan" /\ stage = "css" /\ nrefs < MaxRefs
  /\ \E rule \in Site(site).rules :
     \E dom \in [1..Len(rule_selectors[rule]) -> Site(site).matched] :
       IF at_rule[rule] \/ rule.urls = <<>>
         THEN planned' = planned /\ cur' = NoCalls /\ rejected' = NoCalls
       ELSE /\ planned' = AddSelectors(planned, rule, 1, dom)
            /\ cur' = UNION {CallsOf(dom[k], rule.urls, "css:style.css",
                                     rule_selectors[rule][k]) :
                               k \in {j \in 1..Len(rule_selectors[rule]) :
                                        selector_ok[rule][j, dom[j]]}}
            /\ rejected' =
                 {Rejection("deny", "", "css:style.css", rule_selectors[rule][k],
                            section_label_of(dom[k])) :
                    k \in {j \in 1..Len(rule_selectors[rule]) :
                             selector_denied[rule][j, dom[j]]}}
                   \cup (IF \E j \in 1..Len(rule_selectors[rule]) :
                               selector_ok[rule][j, dom[j]]
                           THEN BgNameRejections(rule.urls, "css:style.css")
                         ELSE NoCalls)
  /\ nrefs' = nrefs + 1
  /\ UNCHANGED <<cssVars, site, args, pc, page, stage, execVars, fileVars, net, exit, hist>>

\* collect_plans_for_html returns, lines 539-547
EndPage ==
  /\ pc = "plan" /\ stage = "css"
  /\ page' = page + 1
  /\ stage' = "open"
  /\ cur' = NoCalls
  /\ rejected' = NoCalls
  /\ UNCHANGED <<cssVars, site, args, pc, nrefs, planned, execVars, fileVars, net, exit, hist>>

\* collect_plans_for_html raises (a page or stylesheet that cannot be read,
\* a file that cannot be stat-ed): the exception leaves main, line 540
DiscoveryError ==
  /\ pc = "plan" /\ page <= MaxPages
  /\ pc' = "aborted"
  /\ exit' = "OSError"
  /\ UNCHANGED <<cssVars, site, args, planVars, execVars, fileVars, net, hist>>

(* ----------------------- phase 2: the loop of main --------------------- *)
\* line 561: the query of the reference of rank i (enumerate counts from 0)
original_query(i) ==
  build_query(planned[i].category, planned[i].text, i - 1, planned[i].source)

\* lines 558-564 for the reference of rank i, or the end of the loop
EnterRef(i) ==
  IF i <= Len(planned)
    THEN /\ pc' = "search"
         /\ idx' = i
         /\ vi' = 1
         /\ query' = original_query(i)
         /\ chosen_url' = None
  ELSE /\ pc' = "report"
       /\ UNCHANGED <<idx, vi, query, chosen_url>>

\* the loop over html_paths has ended, lines 539-547: every page was collected
PlanCompleteEarly == page > 1 \/ page > MaxPages

PlanComplete == page > MaxPages

\* line 553
makes_backup_dir(a) == ~a.dry_run

\* lines 549-556
BeginExecute ==
  /\ pc = "plan" /\ stage = "open" /\ PlanComplete
  /\ IF planned = <<>>
       THEN /\ pc' = "done"
            /\ exit' = "0"
            /\ UNCHANGED <<idx, vi, query, chosen_url, backup_dir>>
     ELSE /\ backup_dir' = makes_backup_dir(args)
          /\ EnterRef(1)
          /\ exit' = exit
  /\ UNCHANGED <<cssVars, site, args, planVars, count, report, tried, skipped, last_status, backups,
                 copies, content, report_file, net, hist>>

\* the search responses: status code and the photos of the result page
PexelsResponses ==
  {[status |-> 500, photos |-> <<>>],
   [status |-> 200, photos |-> <<>>],
   [status |-> 200, photos |-> <<[large |-> "u1", original |-> "u2"]>>],
   [status |-> 200, photos |-> <<[large |-> None, original |-> "u2"]>>],
   [status |-> 200, photos |-> <<[large |-> None, original |-> None]>>]}

UnsplashResponses ==
  {[status |-> 500, results |-> <<>>],
   [status |-> 200, results |-> <<>>],
   [status |-> 200, results |-> <<[regular |-> "u1"]>>],
   [status |-> 200, results |-> <<[regular |-> None]>>]}

Responses(provider) == IF provider = "pexels" THEN PexelsResponses ELSE UnsplashResponses

\* what fetch_pexels / fetch_unsplash return for a response with status 200
fetch_pexels(resp) ==
  IF resp.photos = <<>> THEN None
  ELSE IF resp.photos[1].large # None THEN resp.photos[1].large
  ELSE resp.photos[1].original

fetch_unsplash(resp) ==
  IF resp.results = <<>> THEN None ELSE resp.results[1].regular

fetch(provider, resp) ==
  IF provider = "pexels" THEN fetch_pexels(resp) ELSE fetch_unsplash(resp)

\* line 474 / 491
raises_ignored(resp) == FALSE

raises(resp) == resp.status # 200

\* line 570
found_always(url) == TRUE

found(url) == url # None

\* line 579
replaces_always(a) == TRUE

replaces_files(a) == ~a.dry_run

\* line 601
writes_always(a) == TRUE

writes_report(a) == ~a.dry_run

\* one search request and what the loop does with its response, lines 565-576
Search ==
  /\ pc = "search"
  /\ \E resp \in Responses(args.provider) :
       LET q == query_variants(query)[vi]
           url == fetch(args.provider, resp)
       IN /\ net' = [net EXCEPT !.search = TRUE]
          /\ last_status' = resp.status
          /\ tried' = IF vi = 1 THEN <<q>> ELSE Append(tried, q)
          /\ IF raises(resp)
               THEN /\ pc' = "aborted"
                    /\ exit' = "RuntimeError"
                    /\ UNCHANGED <<idx, vi, query, chosen_url, skipped>>
             ELSE IF found(url)
               THEN /\ chosen_url' = url
                    /\ query' = q
                    /\ pc' = IF replaces_files(args) THEN "backup" ELSE "append"
                    /\ UNCHANGED <<idx, vi, skipped, exit>>
             ELSE IF vi < Len(query_variants(query))
               THEN /\ vi' = vi + 1
                    /\ chosen_url' = url
                    /\ UNCHANGED <<pc, idx, query, skipped, exit>>
             ELSE /\ skipped' = skipped \cup {planned[idx].path}
                  /\ EnterRef(idx + 1)
                  /\ exit' = exit
  /\ UNCHANGED <<cssVars, site, args, planVars, count, report, fileVars, hist>>

\* ensure_backup, line 580: the copy is named by img_path.name alone
Backup ==
  /\ pc = "backup"
  /\ LET p == planned[idx].path
     IN IF \E b \in backups : b.name = Name(p)
          THEN UNCHANGED <<backups, copies>>
        ELSE /\ backups' = backups \cup {[name |-> Name(p), of |-> p, bytes |-> content[p]]}
             /\ copies' = [copies EXCEPT ![p] = @ + 1]
  /\ pc' = "download"
  /\ UNCHANGED <<cssVars, site, args, planVars, execVars, backup_dir, content, report_file, net, exit, hist>>

\* download_image, line 581: the request fails, the stream breaks after the
\* file was opened for writing, or the file is written whole
Download ==
  /\ pc = "download"
  /\ net' = [net EXCEPT !.download = TRUE]
  /\ \E outcome \in {"http_error", "stream_error", "ok"} :
       CASE outcome = "http_error" ->
              /\ pc' = "aborted"
              /\ exit' = "HTTPError"
              /\ content' = content
         [] outcome = "stream_error" ->
              /\ pc' = "aborted"
              /\ exit' = "ConnectionError"
              /\ content' = [content EXCEPT ![planned[idx].path] = "partial"]
         [] outcome = "ok" ->
              /\ pc' = "append"
              /\ exit' = exit
              /\ content' = [content EXCEPT ![planned[idx].path] = chosen_url]
  /\ UNCHANGED <<cssVars, site, args, planVars, execVars, backup_dir, backups, copies, report_file, hist>>

\* line 596
limit_reached_never(limit, n) == FALSE

limit_reached(limit, n) == limit # 0 /\ n >= limit

\* the dict of lines 584-593 for the reference of rank i
report_entry_first_query(i, q, url) ==
  [file |-> planned[i].path,
   category |-> planned[i].category,
   query |-> original_query(i),
   image_url |-> url,
   source |-> planned[i].source,
   section |-> planned[i].section,
   context_text |-> planned[i].text,
   pages |-> planned[i].pages]

report_entry(i, q, url) ==
  [file |-> planned[i].path,
   category |-> planned[i].category,
   query |-> q,
   image_url |-> url,
   source |-> planned[i].source,
   section |-> planned[i].section,
   context_text |-> planned[i].text,
   pages |-> planned[i].pages]

\* lines 583-597
AppendReport ==
  /\ pc = "append"
  /\ report' = Append(report, report_entry(idx, query, chosen_url))
  /\ count' = count + 1
  /\ IF limit_reached(args.limit, count + 1)
       THEN pc' = "report" /\ UNCHANGED <<idx, vi, query, chosen_url>>
     ELSE EnterRef(idx + 1)
  /\ UNCHANGED <<cssVars, site, args, planVars, tried, skipped, last_status, fileVars, net, exit, hist>>

\* lines 599-605
WriteReport ==
  /\ pc = "report"
  /\ report_file' = IF writes_report(args) THEN report ELSE report_file
  /\ pc' = "done"
  /\ exit' = "0"
  /\ UNCHANGED <<cssVars, site, args, planVars, execVars, backup_dir, backups, copies, content, net, hist>>

Next ==
  \/ OpenPage
  \/ ImgRef
  \/ ImgsDone
  \/ InlineRef
  \/ InlineDone
  \/ CssRule
  \/ EndPage
  \/ DiscoveryError
  \/ BeginExecute
  \/ Search
  \/ Backup
  \/ Download
  \/ AppendReport
  \/ WriteReport

Spec == Init /\ [][Next]_vars

(* ------------------- the merge specification: add_planned -------------- *)
Categories == {"hero", "about", "doctor", "testimonial", "generic"}

MergePaths == {"a/photo.jpg", "hero-bg.jpg"}

MergeInit ==
  /\ site = "small"
  /\ args = [dry_run |-> TRUE, limit |-> 0, provider |-> "pexels"]
  /\ pc = "merge"
  /\ Fresh

\* one call add_planned(planned, path, meta) with a record of one page
MergeAdd ==
  /\ pc = "merge" /\ nrefs < MaxAdds
  /\ \E path \in MergePaths, category \in Categories, pg \in 1..MaxPages :
       /\ planned' = add_planned(planned, path,
                                 [category |-> category, text |-> <<"Happy", "patients">>,
                                  section |-> <<"hero-area">>, source |-> "img",
                                  pages |-> <<pg>>])
       /\ hist' = hist \cup {[path |-> path, category |-> category, page |-> pg]}
  /\ nrefs' = nrefs + 1
  /\ UNCHANGED <<cssVars, site, args, pc, page, stage, cur, rejected, execVars, fileVars, net, exit>>

MergeNext == MergeAdd

MergeSpec == MergeInit /\ [][MergeNext]_vars

(* --------------- the collector specification: phase 1 alone ------------- *)
CollectInit ==
  /\ site = "full"
  /\ args = [dry_run |-> TRUE, limit |-> 0, provider |-> "pexels"]
  /\ pc = "plan"
  /\ Fresh

CollectNext ==
  \/ OpenPage
  \/ ImgRef
  \/ ImgsDone
  \/ InlineRef
  \/ InlineDone
  \/ CssRule
  \/ EndPage
  \/ DiscoveryError

CollectSpec == CollectInit /\ [][CollectNext]_vars

(* --------- the stylesheet specification: iter_css_blocks alone --------- *)
AtNames == {AT_MEDIA, AT_SUPPORTS}

\* what stands between the end of the previous block and an at-rule
Gaps == {<<>>, <<" ">>}

\* what a stylesheet starts with: nothing, or a comment
Heads == {<<>>, <<"/", "*", "{", "*", "/">>}

\* an item of a stylesheet: a plain rule, or an at-rule with the items it
\* encloses
PlainRule == [at |-> FALSE, lead |-> <<>>, inner |-> <<>>]

SeqsOf(S) == UNION {[1..n -> S] : n \in 1..MaxBlocks}

\* the items with at most d levels of at-rules
RECURSIVE Items(_)
Items(d) ==
  IF d = 0 THEN {PlainRule}
  ELSE {PlainRule} \cup
       {[at |-> TRUE, lead |-> g, inner |-> in] : g \in Gaps, in \in SeqsOf(Items(d - 1))}

Sheets(d) == SeqsOf(Items(d))

\* the text of a rule at the top level, and of a rule inside an at-rule
TopRule == <<".", "t", "{", "u", "r", "l", "(", "x", ")", "}">>
NestedRule == <<".", "n", "{", "u", "r", "l", "(", "x", ")", "}">>

\* the block a rule inside an at-rule is to be yielded as
NestedBlock == [selector |-> <<".", "n">>, body |-> <<"u", "r", "l", "(", "x", ")">>]

\* the text of a sequence of items that stands inside depth at-rules;
\* names[d] is the keyword of the at-rules of level d
RECURSIVE RenderSeq(_, _, _)
RenderSeq(items, depth, names) ==
  IF items = <<>> THEN <<>>
  ELSE LET it == Head(items)
       IN (IF ~it.at THEN (IF depth = 0 THEN TopRule ELSE NestedRule)
           ELSE it.lead \o names[depth + 1] \o <<" ", "x", "{">>
                \o RenderSeq(it.inner, depth + 1, names) \o <<"}">>)
          \o RenderSeq(Tail(items), depth, names)

\* number of plain rules of items that stand inside an at-rule
RECURSIVE NestedRules(_, _)
NestedRules(items, depth) ==
  IF items = <<>> THEN 0
  ELSE LET it == Head(items)
       IN (IF ~it.at THEN (IF depth = 0 THEN 0 ELSE 1)
           ELSE NestedRules(it.inner, depth + 1))
          + NestedRules(Tail(items), depth)

CssInit ==
  /\ site = "small"
  /\ args = [dry_run |-> TRUE, limit |-> 0, provider |-> "pexels"]
  /\ pc = "read"
  /\ Fresh

\* css_text = css_path.read_text(...), line 339
ReadStylesheet ==
  /\ pc = "read"
  /\ \E sh \in Sheets(MaxNest), head \in Heads, names \in [1..MaxNest -> AtNames] :
       /\ sheet' = sh
       /\ css_text' = head \o RenderSeq(sh, 0, names)
  /\ pc' = "iter"
  /\ UNCHANGED <<blocks, site, args, planVars, execVars, fileVars, net, exit, hist>>

\* the call iter_css_blocks(css_text) of line 340
IterCssBlocks ==
  /\ pc = "iter"
  /\ blocks' = iter_css_blocks(css_text)
  /\ pc' = "blocks"
  /\ UNCHANGED <<sheet, css_text, site, args, planVars, execVars, fileVars, net, exit, hist>>

CssNext ==
  \/ ReadStylesheet
  \/ IterCssBlocks

CssSpec == CssInit /\ [][CssNext]_vars

(* ------------------------------- claims -------------------------------- *)
NoSideEffects ==
  /\ ~net.search
  /\ ~net.download
  /\ ~backup_dir
  /\ backups = {}
  /\ \A p \in Files : content[p] = "orig"
  /\ report_file = "absent"

\* C1: as long as collect_plans_for_html has not returned for every page
\* (which includes a run that a discovery error ended), no search request
\* was issued, nothing was backed up, no image was overwritten and no report
\* was written.
C1_PlanBeforeEffects == page <= MaxPages => NoSideEffects

\* discovery of the second page failed after the first page was planned
C1_Witness == exit = "OSError" /\ page = 2 /\ planned # <<>>

BeingOverwritten(p) ==
  \/ content[p] # "orig"
  \/ pc = "download" /\ planned[idx].path = p

\* C2: every image that is being or was overwritten has a copy of its own
\* original bytes in the backup directory, and no path was copied twice.
C2_OwnBackupBeforeOverwrite ==
  \A p \in Files :
    /\ copies[p] <= 1
    /\ BeingOverwritten(p) => \E b \in backups : b.of = p /\ b.bytes = "orig"

\* C3: in dry-run mode no backup directory exists, no image file's bytes
\* changed and no report file was written.
C3_DryRunNoMutation ==
  args.dry_run =>
    /\ ~backup_dir
    /\ backups = {}
    /\ \A p \in Files : content[p] = "orig"
    /\ report_file = "absent"

\* a dry run that ended after choosing replacements for two references
C3_Witness == args.dry_run /\ pc = "done" /\ Len(report) >= 2

\* C4 as stated: in dry-run mode no search request and no download request
\* is issued.
C4_DryRunNoNetwork == args.dry_run => ~net.search /\ ~net.download

\* C4 as amended: in dry-run mode no download request is issued, while the
\* search requests are: every choice and every skip of a dry run comes from
\* a search request.
C4_DryRunNoDownload ==
  args.dry_run =>
    /\ ~net.download
    /\ (report # <<>> \/ skipped # {}) => net.search

\* a dry run that searched and chose a replacement
C4_Witness == args.dry_run /\ net.search /\ report # <<>> /\ pc = "append"

RecordsOf(path) == {h \in hist : h.path = path}

\* C5: after any sequence of add_planned calls, each path that was added has
\* exactly one entry, with the highest-priority category among its records
\* and the sorted, duplicate-free union of their pages.
C5_MergedEntry ==
  \A path \in {h.path : h \in hist} :
    /\ Cardinality({i \in 1..Len(planned) : planned[i].path = path}) = 1
    /\ LET e == planned[IndexOf(planned, path)]
       IN /\ \E h \in RecordsOf(path) : h.category = e.category
          /\ \A h \in RecordsOf(path) :
               CATEGORY_PRIORITY(h.category) <= CATEGORY_PRIORITY(e.category)
          /\ e.pages = SortedSeq({h.page : h \in RecordsOf(path)})

\* hero on page 1 and testimonial on page 2 were merged, in either order
C5_Witness ==
  /\ pc = "merge"
  /\ RecordsOf("a/photo.jpg") =
       {[path |-> "a/photo.jpg", category |-> "hero", page |-> 1],
        [path |-> "a/photo.jpg", category |-> "testimonial", page |-> 2]}
  /\ planned[IndexOf(planned, "a/photo.jpg")].category = "hero"
  /\ planned[IndexOf(planned, "a/photo.jpg")].pages = <<1, 2>>

\* C6: a search response whose status is not 200 aborts the run with a
\* RuntimeError, no report is written then, and an aborted run takes no
\* further step (no search, backup, overwrite, report, next reference).
C6_SearchErrorAborts ==
  /\ [](last_status \notin {0, 200} =>
         pc = "aborted" /\ exit = "RuntimeError" /\ report_file = "absent")
  /\ [][pc # "aborted"]_vars

\* the run was aborted by a search error after one replacement, with
\* planned references left
C6_Witness ==
  /\ last_status = 500
  /\ pc = "aborted"
  /\ count = 1
  /\ idx < Len(planned)
  /\ ~args.dry_run

IsPrefix(s, t) == Len(s) <= Len(t) /\ s = SubSeq(t, 1, Len(s))

\* C7: the queries sent for a reference are a prefix of what query_variants
\* yields for its original query; the search for a reference stops with the
\* first variant that returns a url; a reference is skipped only after every
\* variant was tried, and the skip changes no file and no report entry and
\* leaves the run going (next reference or report).
C7_VariantsInOrder ==
  /\ [](pc = "search" =>
         /\ query = original_query(idx)
         /\ vi > 1 => tried = SubSeq(query_variants(query), 1, vi - 1))
  /\ [](pc \in {"backup", "download", "append"} =>
         /\ tried # <<>>
         /\ IsPrefix(tried, query_variants(original_query(idx)))
         /\ query = tried[Len(tried)]
         /\ chosen_url # None)
  /\ [][(pc = "search" /\ chosen_url' # None /\ pc' # "aborted")
          => pc' \in {"backup", "append"}]_vars
  /\ [][skipped' # skipped =>
          /\ tried' = query_variants(query)
          /\ skipped' = skipped \cup {planned[idx].path}
          /\ UNCHANGED <<fileVars, report, count, exit>>
          /\ \/ pc' = "search" /\ idx' = idx + 1
             \/ pc' = "report" /\ idx = Len(planned)]_vars

\* a reference was skipped, a later one was replaced, the run ended normally
C7_Witness ==
  /\ pc = "done"
  /\ exit = "0"
  /\ skipped # {}
  /\ report # <<>>
  /\ \E i \in 1..Len(planned) :
       /\ planned[i].path \in skipped
       /\ \E j \in (i + 1)..Len(planned) : content[planned[j].path] \in {"u1", "u2"}

Reported == {report[i].file : i \in 1..Len(report)}

Overwritten == {p \in Files : content[p] # "orig"}

\* C8: with limit L > 0 at most L files are overwritten and the report has
\* at most L entries; skipped references are not counted; the references
\* before the current one were each replaced or skipped, so the replaced
\* ones are the first replaceable ones in plan order; a run that ends with
\* the limit not reached (always so with limit 0) attempted every reference.
C8_LimitRespected ==
  /\ count = Len(report)
  /\ args.limit > 0 => Len(report) <= args.limit /\ Cardinality(Overwritten) <= args.limit
  /\ Reported \cap skipped = {}
  /\ \A i \in 1..Len(report) : \A j \in 1..Len(report) :
       i < j => IndexOf(planned, report[i].file) < IndexOf(planned, report[j].file)
  /\ \A i \in 1..Len(planned) : i < idx => planned[i].path \in Reported \cup skipped
  /\ \A i \in 1..Len(planned) : i > idx => planned[i].path \notin Reported \cup skipped
  /\ (pc = "done" /\ (args.limit = 0 \/ Len(report) < args.limit)) =>
       \A i \in 1..Len(planned) : planned[i].path \in Reported \cup skipped

\* limit 1: the first reference was skipped, the second replaced, the third
\* left alone
C8_Witness ==
  /\ pc = "done"
  /\ args.limit = 1
  /\ ~args.dry_run
  /\ Len(planned) = 3
  /\ planned[1].path \in skipped
  /\ Reported = {planned[2].path}
  /\ Overwritten = {planned[2].path}

IsCss(source) == StartsWith(Chars(source), Chars("css"))

\* C9 as stated: no plan entry that comes from an external CSS rule belongs
\* to an element whose text contains the deny-listed term "subscribe".
C9_SubscribeTextExcluded ==
  \A i \in 1..Len(planned) :
    IsCss(planned[i].source) =>
      ~Contains(Lower(Join(planned[i].text)), Chars("subscribe"))

\* C9 as amended: add_planned is never called for a CSS selector whose raw
\* selector text or matched element's section label (id and classes of the
\* section tag) contains a deny-listed term, also when an allow-listed term
\* occurs there too.
C9_DenyHintExcluded ==
  \A c \in cur :
    IsCss(c.source) =>
      ~ContainsAny(Lower(c.selector \o <<" ">> \o Join(c.section)), CSS_DENY_HINTS)

\* a selector with both an allow-listed and a deny-listed term was dropped
C9_Witness ==
  \E r \in rejected :
    /\ r.why = "deny"
    /\ ContainsAny(Lower(r.selector \o <<" ">> \o Join(r.section)), CSS_ALLOW_HINTS)
    /\ ContainsAny(Lower(r.selector \o <<" ">> \o Join(r.section)), <<"subscribe">>)
    /\ \A c \in cur : c.selector # r.selector

\* C10 as stated: no file whose name contains logo, icon, shape, pattern or
\* bg is in the plan.
C10_DecorationNeverPlanned ==
  \A i \in 1..Len(planned) :
    ~SearchIgnoreCase(<<"logo", "icon", "shape", "pattern", "bg">>, Chars(Name(planned[i].path)))

\* C10 as amended: no file whose name contains logo, favicon, icon, shape or
\* pattern is in the plan; add_planned is not called for an <img> whose file
\* name contains bg, nor for a background (inline or CSS) whose file name
\* contains overlay, wave, dot, line or map.
C10_FiltersBySource ==
  /\ \A i \in 1..Len(planned) :
       ~SearchIgnoreCase(<<"logo", "favicon", "icon", "shape", "pattern">>,
                         Chars(Name(planned[i].path)))
  /\ \A c \in cur :
       IF c.source = "img"
         THEN ~SearchIgnoreCase(<<"bg">>, Chars(Name(c.path)))
       ELSE ~SearchIgnoreCase(<<"overlay", "wave", "dot", "line", "map">>, Chars(Name(c.path)))

\* a background reference to logo.png was dropped, and one to hero-bg.jpg
\* was planned
C10_Witness ==
  /\ \E r \in rejected : r.why = "name" /\ r.source # "img" /\ r.path = "logo.png"
  /\ \E i \in 1..Len(planned) : planned[i].path = "hero-bg.jpg"

\* C11: a plain rule that stands inside an @media or @supports block, at any
\* depth, and whether or not a blank precedes the at-rule, is yielded by
\* iter_css_blocks as a block of its own, and that block goes on to the
\* selector lookup
C11_NestedRulesYielded ==
  pc = "blocks" =>
    Cardinality({i \in 1..Len(blocks) :
                   blocks[i] = NestedBlock /\ reaches_lookup(blocks[i])})
      = NestedRules(sheet, 0)

\* the references of the plan the loop of main has gone through
Processed == {planned[i].path : i \in 1..idx}

\* C12: when a live run has ended normally and has written its report (a run
\* with an empty plan returns before, lines 549-551), the written report is
\* the list of the run; its files are the overwritten files, each once and in plan
\* order, none of them skipped or beyond the reference the loop stopped at;
\* each file holds what its entry's url delivered.  An entry is appended
\* with the query of the last search request made for its reference and the
\* url that request returned: the loop leaves the search with that pair and
\* the backup and the download do not touch it.
C12_ReportMatchesRun ==
  /\ []((pc = "done" /\ ~args.dry_run /\ planned # <<>>) =>
         /\ report_file = report
         /\ {report_file[i].file : i \in 1..Len(report_file)} = Overwritten
         /\ \A i \in 1..Len(report_file) : \A j \in 1..Len(report_file) :
              i < j => IndexOf(planned, report_file[i].file)
                         < IndexOf(planned, report_file[j].file)
         /\ \A i \in 1..Len(report_file) :
              /\ report_file[i].file \in Processed \ skipped
              /\ content[report_file[i].file] = report_file[i].image_url
              /\ report_file[i].query \in
                   Range(query_variants(
                           original_query(IndexOf(planned, report_file[i].file)))))
  /\ [][report' # report =>
          /\ Len(report') = Len(report) + 1
          /\ SubSeq(report', 1, Len(report)) = report
          /\ report'[Len(report')].file = planned[idx].path
          /\ report'[Len(report')].query = tried[Len(tried)]
          /\ report'[Len(report')].image_url = chosen_url
          /\ chosen_url # None]_vars
  /\ [][(pc = "search" /\ pc' \in {"backup", "append"}) =>
          /\ last_status' = 200
          /\ query' = tried'[Len(tried')]
          /\ chosen_url' # None]_vars
  /\ [][(pc \in {"backup", "download"}) =>
          (idx' = idx /\ tried' = tried /\ query' = query /\ chosen_url' = chosen_url)]_vars

\* a live run with limit 1 has ended normally: the first reference was
\* skipped, the second was replaced with a later variant of its query, the
\* third was not processed
C12_Witness ==
  /\ pc = "done" /\ exit = "0" /\ ~args.dry_run
  /\ Len(planned) = 3
  /\ idx = 2
  /\ planned[1].path \in skipped
  /\ Len(report_file) = 1
  /\ report_file[1].file = planned[2].path
  /\ report_file[1].query # original_query(2)
  /\ content[planned[2].path] = report_file[1].image_url
====
